---- MODULE Spec2Model ----
(***************************************************************************)
(* Model of src/thread/generic/SDL_sysmutex.c: a recursive mutex built on  *)
(* a counting semaphore.  Every read or write of a field of struct         *)
(* SDL_Mutex and every semaphore call is one step of the calling thread,   *)
(* so all interleavings of concurrent lock / try-lock / unlock calls are   *)
(* explored.  The mutex pointer is non-NULL in every call modelled here.   *)
(***************************************************************************)
EXTENDS Integers, FiniteSets, Sequences, TLC

\* ---- bounds ----
NumThreads == 2      \* number of threads using the mutex
MaxHeld == 2         \* a thread nests at most this many acquisitions
MaxFail == 1         \* semaphore-wait failures injected in SpecWaitFail

Threads == 1..NumThreads
NoOwner == 0         \* mutex->owner = 0 : nobody owns the mutex
SemInitial == 1      \* SDL_CreateSemaphore(1)
SetErrorResult == -1 \* value returned by SDL_SetError()

VARIABLES
    owner,      \* mutex->owner
    recursive,  \* mutex->recursive
    sem,        \* count of mutex->sem
    pc,         \* pc[t]: where thread t is inside a call ("idle" = outside)
    rv,         \* rv[t]: value the call in progress is going to return
    semrv,      \* semrv[t]: what SDL_WaitSemaphore returned to t in this call
    held,       \* held[t]: successful acquires minus successful releases
                \*          that have RETURNED to t (the caller's own count)
    nfail,      \* number of semaphore-wait failures so far
    cpc,        \* where the context that creates and destroys the mutex is
    mutex,      \* the SDL_Mutex pointer that context has: "ptr" or "null"
    mem,        \* number of SDL_Mutex blocks allocated and not freed
    semobj      \* number of semaphores created and not destroyed
                \* (mutex->sem is non-NULL exactly when there is one)

vars == <<owner, recursive, sem, pc, rv, semrv, held, nfail, cpc, mutex, mem, semobj>>

\* what only SDL_CreateMutex and SDL_DestroyMutex change
life == <<cpc, mutex, mem, semobj>>

shared == <<owner, recursive, sem>>

LockLabels == {"lock_test", "lock_inc", "lock_wait", "lock_owner", "lock_rec", "lock_ret"}
TryLabels == {"try_test", "try_inc", "try_wait", "try_owner", "try_rec", "try_ret"}
CreateLabels == {"c_sem", "c_init", "c_check", "c_ret"}
DestroyLabels == {"d_free"}
UnlockLabels == {"unl_test", "unl_rec", "unl_dec", "unl_clear", "unl_post", "unl_ret"}
\* inside a call that was given a NULL mutex, about to return
NullLabels == {"lock_null", "try_null", "unl_null", "destroy_null"}

TypeOK ==
    /\ owner \in Threads \cup {NoOwner}
    /\ recursive \in Int
    /\ sem \in Nat
    /\ pc \in [Threads -> {"idle"} \cup LockLabels \cup TryLabels \cup UnlockLabels
                              \cup NullLabels]
    /\ rv \in [Threads -> Int]
    /\ semrv \in [Threads -> Int]
    /\ held \in [Threads -> Int]
    /\ nfail \in Nat
    /\ cpc \in {"none", "live"} \cup CreateLabels \cup DestroyLabels
    /\ mutex \in {"ptr", "null"}
    /\ mem \in Nat
    /\ semobj \in Nat

\* State right after SDL_CreateMutex succeeded.
Init ==
    /\ owner = NoOwner
    /\ recursive = 0
    /\ sem = SemInitial
    /\ pc = [t \in Threads |-> "idle"]
    /\ rv = [t \in Threads |-> 0]
    /\ semrv = [t \in Threads |-> 0]
    /\ held = [t \in Threads |-> 0]
    /\ nfail = 0
    /\ cpc = "live"
    /\ mutex = "ptr"
    /\ mem = 1
    /\ semobj = 1

\* ---- the semaphore (SDL_WaitSemaphore / SDL_PostSemaphore) ----

\* A thread at a semaphore wait is suspended while the count is 0.
Suspended(t) == pc[t] \in {"lock_wait", "try_wait"} /\ sem = 0

\* SDL_WaitSemaphore succeeding: blocks until a token is there, takes it.
SemWaitOk(t) ==
    /\ sem > 0
    /\ sem' = sem - 1
    /\ semrv' = [semrv EXCEPT ![t] = 0]

\* SDL_WaitSemaphore failing: no token taken, negative result.
SemWaitFail(t) ==
    /\ nfail < MaxFail
    /\ nfail' = nfail + 1
    /\ sem' = sem
    /\ semrv' = [semrv EXCEPT ![t] = SetErrorResult]

\* SDL_PostSemaphore: one token back.
SemPost ==
    sem' = sem + 1

\* ---- SDL_LockMutex ----

LockCall(t) ==
    /\ pc[t] = "idle"
    /\ cpc = "live"
    /\ held[t] < MaxHeld
    /\ pc' = [pc EXCEPT ![t] = "lock_test"]
    /\ UNCHANGED <<life, owner, recursive, sem, rv, semrv, held, nfail>>

\* if (mutex->owner == this_thread)
LockTest(t) ==
    /\ pc[t] = "lock_test"
    /\ pc' = [pc EXCEPT ![t] = IF owner = t THEN "lock_inc" ELSE "lock_wait"]
    /\ UNCHANGED <<life, owner, recursive, sem, rv, semrv, held, nfail>>

\* variant: a nested hold is counted twice
LockInc_Twice(t) ==
    /\ pc[t] = "lock_inc"
    /\ recursive' = recursive + 2
    /\ pc' = [pc EXCEPT ![t] = "lock_ret"]
    /\ rv' = [rv EXCEPT ![t] = 0]
    /\ UNCHANGED <<life, owner, sem, semrv, held, nfail>>

\* ++mutex->recursive;  then fall through to return 0
LockInc(t) ==
    /\ pc[t] = "lock_inc"
    /\ recursive' = recursive + 1
    /\ pc' = [pc EXCEPT ![t] = "lock_ret"]
    /\ rv' = [rv EXCEPT ![t] = 0]
    /\ UNCHANGED <<life, owner, sem, semrv, held, nfail>>

\* variant: the token is taken only if it happens to be there
LockWait_NoBlock(t) ==
    /\ pc[t] = "lock_wait"
    /\ sem' = IF sem > 0 THEN sem - 1 ELSE sem
    /\ semrv' = [semrv EXCEPT ![t] = 0]
    /\ pc' = [pc EXCEPT ![t] = "lock_owner"]
    /\ UNCHANGED <<life, owner, recursive, rv, held, nfail>>

\* SDL_WaitSemaphore(mutex->sem);   (result discarded)
LockWait(t) ==
    /\ pc[t] = "lock_wait"
    /\ SemWaitOk(t)
    /\ pc' = [pc EXCEPT ![t] = "lock_owner"]
    /\ UNCHANGED <<life, owner, recursive, rv, held, nfail>>

\* the same call when the wait fails: the code goes on all the same
LockWaitFail(t) ==
    /\ pc[t] = "lock_wait"
    /\ SemWaitFail(t)
    /\ pc' = [pc EXCEPT ![t] = "lock_owner"]
    /\ UNCHANGED <<life, owner, recursive, rv, held>>

\* variant: the owner field is not written
LockSetOwner_Skip(t) ==
    /\ pc[t] = "lock_owner"
    /\ pc' = [pc EXCEPT ![t] = "lock_rec"]
    /\ UNCHANGED <<life, owner, recursive, sem, rv, semrv, held, nfail>>

\* mutex->owner = this_thread;
LockSetOwner(t) ==
    /\ pc[t] = "lock_owner"
    /\ owner' = t
    /\ pc' = [pc EXCEPT ![t] = "lock_rec"]
    /\ UNCHANGED <<life, recursive, sem, rv, semrv, held, nfail>>

\* mutex->recursive = 0;  then fall through to return 0
LockSetRecursive(t) ==
    /\ pc[t] = "lock_rec"
    /\ recursive' = 0
    /\ pc' = [pc EXCEPT ![t] = "lock_ret"]
    /\ rv' = [rv EXCEPT ![t] = 0]
    /\ UNCHANGED <<life, owner, sem, semrv, held, nfail>>

\* return 0;
LockReturn(t) ==
    /\ pc[t] = "lock_ret"
    /\ held' = [held EXCEPT ![t] = IF rv[t] = 0 THEN @ + 1 ELSE @]
    /\ pc' = [pc EXCEPT ![t] = "idle"]
    /\ rv' = [rv EXCEPT ![t] = 0]
    /\ semrv' = [semrv EXCEPT ![t] = 0]
    /\ UNCHANGED <<life, owner, recursive, sem, nfail>>

\* ---- SDL_TryLockMutex ----

\* int retval = 0;
TryCall(t) ==
    /\ pc[t] = "idle"
    /\ cpc = "live"
    /\ held[t] < MaxHeld
    /\ pc' = [pc EXCEPT ![t] = "try_test"]
    /\ rv' = [rv EXCEPT ![t] = 0]
    /\ UNCHANGED <<life, owner, recursive, sem, semrv, held, nfail>>

\* if (mutex->owner == this_thread)
TryTest(t) ==
    /\ pc[t] = "try_test"
    /\ pc' = [pc EXCEPT ![t] = IF owner = t THEN "try_inc" ELSE "try_wait"]
    /\ UNCHANGED <<life, owner, recursive, sem, rv, semrv, held, nfail>>

\* variant: the re-entrant try-lock forgets to count
TryInc_NoCount(t) ==
    /\ pc[t] = "try_inc"
    /\ pc' = [pc EXCEPT ![t] = "try_ret"]
    /\ UNCHANGED <<life, owner, recursive, sem, rv, semrv, held, nfail>>

\* ++mutex->recursive;
TryInc(t) ==
    /\ pc[t] = "try_inc"
    /\ recursive' = recursive + 1
    /\ pc' = [pc EXCEPT ![t] = "try_ret"]
    /\ UNCHANGED <<life, owner, sem, rv, semrv, held, nfail>>

\* variant: the token is taken only if it happens to be there, and the
\* result is not looked at
TryWait_NoBlock(t) ==
    /\ pc[t] = "try_wait"
    /\ sem' = IF sem > 0 THEN sem - 1 ELSE sem
    /\ semrv' = [semrv EXCEPT ![t] = 0]
    /\ rv' = [rv EXCEPT ![t] = 0]
    /\ pc' = [pc EXCEPT ![t] = "try_owner"]
    /\ UNCHANGED <<life, owner, recursive, held, nfail>>

\* retval = SDL_WaitSemaphore(mutex->sem);  if (retval == 0) ...
TryWait(t) ==
    /\ pc[t] = "try_wait"
    /\ SemWaitOk(t)
    /\ rv' = [rv EXCEPT ![t] = 0]
    /\ pc' = [pc EXCEPT ![t] = "try_owner"]
    /\ UNCHANGED <<life, owner, recursive, held, nfail>>

\* the same call when the wait fails: retval # 0, ownership is not claimed
TryWaitFail(t) ==
    /\ pc[t] = "try_wait"
    /\ SemWaitFail(t)
    /\ rv' = [rv EXCEPT ![t] = SetErrorResult]
    /\ pc' = [pc EXCEPT ![t] = "try_ret"]
    /\ UNCHANGED <<life, owner, recursive, held>>

\* mutex->owner = this_thread;
TrySetOwner(t) ==
    /\ pc[t] = "try_owner"
    /\ owner' = t
    /\ pc' = [pc EXCEPT ![t] = "try_rec"]
    /\ UNCHANGED <<life, recursive, sem, rv, semrv, held, nfail>>

\* variant: the first hold is counted as a nested one
TrySetRecursive_One(t) ==
    /\ pc[t] = "try_rec"
    /\ recursive' = 1
    /\ pc' = [pc EXCEPT ![t] = "try_ret"]
    /\ UNCHANGED <<life, owner, sem, rv, semrv, held, nfail>>

\* mutex->recursive = 0;
TrySetRecursive(t) ==
    /\ pc[t] = "try_rec"
    /\ recursive' = 0
    /\ pc' = [pc EXCEPT ![t] = "try_ret"]
    /\ UNCHANGED <<life, owner, sem, rv, semrv, held, nfail>>

\* return retval;
TryReturn(t) ==
    /\ pc[t] = "try_ret"
    /\ held' = [held EXCEPT ![t] = IF rv[t] = 0 THEN @ + 1 ELSE @]
    /\ pc' = [pc EXCEPT ![t] = "idle"]
    /\ rv' = [rv EXCEPT ![t] = 0]
    /\ semrv' = [semrv EXCEPT ![t] = 0]
    /\ UNCHANGED <<life, owner, recursive, sem, nfail>>

\* ---- SDL_UnlockMutex ----

\* (held[t] > -MaxHeld only caps the caller's count when waits have failed;
\*  it is always true while the semaphore keeps its contract)
UnlockCall(t) ==
    /\ pc[t] = "idle"
    /\ cpc = "live"
    /\ held[t] > -MaxHeld
    /\ pc' = [pc EXCEPT ![t] = "unl_test"]
    /\ UNCHANGED <<life, owner, recursive, sem, rv, semrv, held, nfail>>

\* variant: a free mutex passes the ownership test
UnlockTest_FreeOk(t) ==
    /\ pc[t] = "unl_test"
    /\ IF owner \notin {t, NoOwner}
         THEN /\ pc' = [pc EXCEPT ![t] = "unl_ret"]
              /\ rv' = [rv EXCEPT ![t] = SetErrorResult]
         ELSE /\ pc' = [pc EXCEPT ![t] = "unl_rec"]
              /\ rv' = rv
    /\ UNCHANGED <<life, owner, recursive, sem, semrv, held, nfail>>

\* variant: no ownership test at all
UnlockTest_NoCheck(t) ==
    /\ pc[t] = "unl_test"
    /\ pc' = [pc EXCEPT ![t] = "unl_rec"]
    /\ UNCHANGED <<life, owner, recursive, sem, rv, semrv, held, nfail>>

\* variant: the error is set but the function does not return there
UnlockTest_NoReturn(t) ==
    /\ pc[t] = "unl_test"
    /\ pc' = [pc EXCEPT ![t] = "unl_rec"]
    /\ rv' = [rv EXCEPT ![t] = IF owner # t THEN SetErrorResult ELSE @]
    /\ UNCHANGED <<life, owner, recursive, sem, semrv, held, nfail>>

\* if (SDL_GetCurrentThreadID() != mutex->owner) return SDL_SetError(...);
UnlockTest(t) ==
    /\ pc[t] = "unl_test"
    /\ IF owner # t
         THEN /\ pc' = [pc EXCEPT ![t] = "unl_ret"]
              /\ rv' = [rv EXCEPT ![t] = SetErrorResult]
         ELSE /\ pc' = [pc EXCEPT ![t] = "unl_rec"]
              /\ rv' = rv
    /\ UNCHANGED <<life, owner, recursive, sem, semrv, held, nfail>>

\* variant: the test of the depth is the wrong way round
UnlockTestRecursive_Inverted(t) ==
    /\ pc[t] = "unl_rec"
    /\ pc' = [pc EXCEPT ![t] = IF recursive # 0 THEN "unl_clear" ELSE "unl_dec"]
    /\ UNCHANGED <<life, owner, recursive, sem, rv, semrv, held, nfail>>

\* variant: every release is treated as the outermost one
UnlockTestRecursive_Always(t) ==
    /\ pc[t] = "unl_rec"
    /\ pc' = [pc EXCEPT ![t] = "unl_clear"]
    /\ UNCHANGED <<life, owner, recursive, sem, rv, semrv, held, nfail>>

\* if (mutex->recursive)
UnlockTestRecursive(t) ==
    /\ pc[t] = "unl_rec"
    /\ pc' = [pc EXCEPT ![t] = IF recursive # 0 THEN "unl_dec" ELSE "unl_clear"]
    /\ UNCHANGED <<life, owner, recursive, sem, rv, semrv, held, nfail>>

\* variant: the inner release forgets to count down
UnlockDec_NoCount(t) ==
    /\ pc[t] = "unl_dec"
    /\ pc' = [pc EXCEPT ![t] = "unl_ret"]
    /\ rv' = [rv EXCEPT ![t] = 0]
    /\ UNCHANGED <<life, owner, recursive, sem, semrv, held, nfail>>

\* --mutex->recursive;  then return 0
UnlockDec(t) ==
    /\ pc[t] = "unl_dec"
    /\ recursive' = recursive - 1
    /\ pc' = [pc EXCEPT ![t] = "unl_ret"]
    /\ rv' = [rv EXCEPT ![t] = 0]
    /\ UNCHANGED <<life, owner, sem, semrv, held, nfail>>

\* variant: the token is posted while the owner field is still set
UnlockClearOwner_PostFirst(t) ==
    /\ pc[t] = "unl_clear"
    /\ sem' = sem + 1
    /\ owner' = NoOwner
    /\ pc' = [pc EXCEPT ![t] = "unl_ret"]
    /\ rv' = [rv EXCEPT ![t] = 0]
    /\ UNCHANGED <<life, recursive, semrv, held, nfail>>

\* mutex->owner = 0;
UnlockClearOwner(t) ==
    /\ pc[t] = "unl_clear"
    /\ owner' = NoOwner
    /\ pc' = [pc EXCEPT ![t] = "unl_post"]
    /\ UNCHANGED <<life, recursive, sem, rv, semrv, held, nfail>>

\* variant: the outermost release forgets to post the token
UnlockPost_NoPost(t) ==
    /\ pc[t] = "unl_post"
    /\ pc' = [pc EXCEPT ![t] = "unl_ret"]
    /\ rv' = [rv EXCEPT ![t] = 0]
    /\ UNCHANGED <<life, owner, recursive, sem, semrv, held, nfail>>

\* SDL_PostSemaphore(mutex->sem);  then return 0
UnlockPost(t) ==
    /\ pc[t] = "unl_post"
    /\ SemPost
    /\ pc' = [pc EXCEPT ![t] = "unl_ret"]
    /\ rv' = [rv EXCEPT ![t] = 0]
    /\ UNCHANGED <<life, owner, recursive, semrv, held, nfail>>

\* return
UnlockReturn(t) ==
    /\ pc[t] = "unl_ret"
    /\ held' = [held EXCEPT ![t] = IF rv[t] = 0 THEN @ - 1 ELSE @]
    /\ pc' = [pc EXCEPT ![t] = "idle"]
    /\ rv' = [rv EXCEPT ![t] = 0]
    /\ UNCHANGED <<life, owner, recursive, sem, semrv, nfail>>

\* ---- calls with a NULL mutex ----

\* SDL_LockMutex(NULL):  if (mutex == NULL) return 0;
LockNull(t) ==
    /\ pc[t] = "idle"
    /\ pc' = [pc EXCEPT ![t] = "lock_null"]
    /\ rv' = [rv EXCEPT ![t] = 0]
    /\ UNCHANGED <<life, owner, recursive, sem, semrv, held, nfail>>

\* SDL_TryLockMutex(NULL):  if (mutex == NULL) return 0;
TryNull(t) ==
    /\ pc[t] = "idle"
    /\ pc' = [pc EXCEPT ![t] = "try_null"]
    /\ rv' = [rv EXCEPT ![t] = 0]
    /\ UNCHANGED <<life, owner, recursive, sem, semrv, held, nfail>>

\* variant: a NULL mutex is reported as an invalid parameter
UnlockNull_Error(t) ==
    /\ pc[t] = "idle"
    /\ pc' = [pc EXCEPT ![t] = "unl_null"]
    /\ rv' = [rv EXCEPT ![t] = SetErrorResult]
    /\ UNCHANGED <<life, owner, recursive, sem, semrv, held, nfail>>

\* SDL_UnlockMutex(NULL):  if (mutex == NULL) return 0;
UnlockNull(t) ==
    /\ pc[t] = "idle"
    /\ pc' = [pc EXCEPT ![t] = "unl_null"]
    /\ rv' = [rv EXCEPT ![t] = 0]
    /\ UNCHANGED <<life, owner, recursive, sem, semrv, held, nfail>>

\* SDL_DestroyMutex(NULL):  if (mutex) is false, nothing is done
DestroyNull(t) ==
    /\ pc[t] = "idle"
    /\ pc' = [pc EXCEPT ![t] = "destroy_null"]
    /\ rv' = [rv EXCEPT ![t] = 0]
    /\ UNCHANGED <<life, owner, recursive, sem, semrv, held, nfail>>

\* the return of a call that was given NULL; it is no acquire and no release
NullReturn(t) ==
    /\ pc[t] \in NullLabels
    /\ pc' = [pc EXCEPT ![t] = "idle"]
    /\ rv' = [rv EXCEPT ![t] = 0]
    /\ UNCHANGED <<life, owner, recursive, sem, semrv, held, nfail>>

\* ---- SDL_CreateMutex and SDL_DestroyMutex ----

\* No mutex yet: nothing allocated, no semaphore, no thread in a call.
InitLife ==
    /\ owner = NoOwner
    /\ recursive = 0
    /\ sem = 0
    /\ pc = [t \in Threads |-> "idle"]
    /\ rv = [t \in Threads |-> 0]
    /\ semrv = [t \in Threads |-> 0]
    /\ held = [t \in Threads |-> 0]
    /\ nfail = 0
    /\ cpc = "none"
    /\ mutex = "null"
    /\ mem = 0
    /\ semobj = 0

\* mutex = SDL_calloc(1, sizeof(*mutex));  succeeds: zeroed storage
CreateAlloc ==
    /\ cpc = "none"
    /\ mem' = mem + 1
    /\ mutex' = "ptr"
    /\ owner' = NoOwner
    /\ recursive' = 0
    /\ cpc' = "c_sem"
    /\ UNCHANGED <<sem, pc, rv, semrv, held, nfail, semobj>>

\* SDL_calloc fails:  else { SDL_OutOfMemory(); }
CreateAllocFail ==
    /\ cpc = "none"
    /\ mutex' = "null"
    /\ cpc' = "c_ret"
    /\ UNCHANGED <<owner, recursive, sem, pc, rv, semrv, held, nfail, mem, semobj>>

\* mutex->sem = SDL_CreateSemaphore(1);  succeeds
CreateSem ==
    /\ cpc = "c_sem"
    /\ semobj' = semobj + 1
    /\ sem' = SemInitial
    /\ cpc' = "c_init"
    /\ UNCHANGED <<owner, recursive, pc, rv, semrv, held, nfail, mutex, mem>>

\* SDL_CreateSemaphore fails: mutex->sem = NULL
CreateSemFail ==
    /\ cpc = "c_sem"
    /\ cpc' = "c_init"
    /\ UNCHANGED <<owner, recursive, sem, pc, rv, semrv, held, nfail, mutex, mem, semobj>>

\* mutex->recursive = 0;  mutex->owner = 0;
CreateInit ==
    /\ cpc = "c_init"
    /\ recursive' = 0
    /\ owner' = NoOwner
    /\ cpc' = "c_check"
    /\ UNCHANGED <<sem, pc, rv, semrv, held, nfail, mutex, mem, semobj>>

\* variant: the storage is not freed when there is no semaphore
CreateCheck_Leak ==
    /\ cpc = "c_check"
    /\ mutex' = IF semobj = 0 THEN "null" ELSE mutex
    /\ cpc' = "c_ret"
    /\ UNCHANGED <<owner, recursive, sem, pc, rv, semrv, held, nfail, mem, semobj>>

\* if (!mutex->sem) { SDL_free(mutex); mutex = NULL; }
CreateCheck ==
    /\ cpc = "c_check"
    /\ IF semobj = 0
         THEN /\ mem' = mem - 1
              /\ mutex' = "null"
         ELSE /\ UNCHANGED <<mem, mutex>>
    /\ cpc' = "c_ret"
    /\ UNCHANGED <<owner, recursive, sem, pc, rv, semrv, held, nfail, semobj>>

\* return mutex;
CreateReturn ==
    /\ cpc = "c_ret"
    /\ cpc' = IF mutex = "ptr" THEN "live" ELSE "none"
    /\ UNCHANGED <<owner, recursive, sem, pc, rv, semrv, held, nfail, mutex, mem, semobj>>

\* SDL_DestroyMutex(mutex) on a mutex that is free and that no thread is
\* using (what its caller must guarantee):
\* if (mutex->sem) SDL_DestroySemaphore(mutex->sem);
DestroySem ==
    /\ cpc = "live"
    /\ \A t \in Threads : pc[t] \in {"idle"} \cup NullLabels /\ held[t] = 0
    /\ owner = NoOwner
    /\ IF semobj > 0
         THEN semobj' = semobj - 1 /\ sem' = 0
         ELSE UNCHANGED <<semobj, sem>>
    /\ cpc' = "d_free"
    /\ UNCHANGED <<owner, recursive, pc, rv, semrv, held, nfail, mutex, mem>>

\* SDL_free(mutex);  and the caller forgets the pointer
DestroyFree ==
    /\ cpc = "d_free"
    /\ mem' = mem - 1
    /\ mutex' = "null"
    /\ cpc' = "none"
    /\ UNCHANGED <<owner, recursive, sem, pc, rv, semrv, held, nfail, semobj>>

\* ---- specifications ----

\* steps a thread takes by itself once it is inside a call
Internal(t) ==
    \/ LockTest(t) \/ LockInc(t) \/ LockSetOwner(t) \/ LockSetRecursive(t) \/ LockReturn(t)
    \/ TryTest(t) \/ TryInc(t) \/ TrySetOwner(t) \/ TrySetRecursive(t) \/ TryReturn(t)
    \/ UnlockTest(t) \/ UnlockTestRecursive(t) \/ UnlockDec(t)
    \/ UnlockClearOwner(t) \/ UnlockPost(t) \/ UnlockReturn(t)
    \/ NullReturn(t)

Next ==
    \/ \E t \in Threads : LockCall(t)
    \/ \E t \in Threads : LockTest(t)
    \/ \E t \in Threads : LockInc(t)
    \/ \E t \in Threads : LockWait(t)
    \/ \E t \in Threads : LockSetOwner(t)
    \/ \E t \in Threads : LockSetRecursive(t)
    \/ \E t \in Threads : LockReturn(t)
    \/ \E t \in Threads : TryCall(t)
    \/ \E t \in Threads : TryTest(t)
    \/ \E t \in Threads : TryInc(t)
    \/ \E t \in Threads : TryWait(t)
    \/ \E t \in Threads : TrySetOwner(t)
    \/ \E t \in Threads : TrySetRecursive(t)
    \/ \E t \in Threads : TryReturn(t)
    \/ \E t \in Threads : UnlockCall(t)
    \/ \E t \in Threads : UnlockTest(t)
    \/ \E t \in Threads : UnlockTestRecursive(t)
    \/ \E t \in Threads : UnlockDec(t)
    \/ \E t \in Threads : UnlockClearOwner(t)
    \/ \E t \in Threads : UnlockPost(t)
    \/ \E t \in Threads : UnlockReturn(t)
    \/ \E t \in Threads : LockNull(t)
    \/ \E t \in Threads : TryNull(t)
    \/ \E t \in Threads : UnlockNull(t)
    \/ \E t \in Threads : DestroyNull(t)
    \/ \E t \in Threads : NullReturn(t)

\* The semaphore under its normal contract: a wait never fails.
Spec == Init /\ [][Next]_vars

\* The semaphore of a platform where a wait can fail.
NextWaitFail ==
    \/ Next
    \/ \E t \in Threads : LockWaitFail(t)
    \/ \E t \in Threads : TryWaitFail(t)

SpecWaitFail == Init /\ [][NextWaitFail]_vars

\* The whole life of the mutex, from before SDL_CreateMutex on.
NextLife ==
    \/ Next
    \/ CreateAlloc
    \/ CreateAllocFail
    \/ CreateSem
    \/ CreateSemFail
    \/ CreateInit
    \/ CreateCheck
    \/ CreateReturn
    \/ DestroySem
    \/ DestroyFree

SpecLife == InitLife /\ [][NextLife]_vars

\* Liveness: a thread inside a call keeps running (the scheduler is weakly
\* fair to runnable threads), a thread waiting at the semaphore gets a token
\* if tokens keep being posted (the semaphore eventually wakes a waiter), and
\* whoever holds the mutex at some depth goes on to release it.
Fairness ==
    /\ \A t \in Threads :
          /\ WF_vars(Internal(t))
          /\ SF_vars(LockWait(t) \/ TryWait(t))
    /\ \A d \in 1..MaxHeld :
          SF_vars(\E t \in Threads : UnlockCall(t) /\ held[t] = d)

FairSpec == Spec /\ Fairness

\* ---- properties ----

\* Thread t is past the point of its outermost release where the owner field
\* is cleared, but has not returned from SDL_UnlockMutex yet.
Releasing(t) == pc[t] \in {"unl_post", "unl_ret"} /\ held[t] = 1 /\ rv[t] = 0

\* Thread t has returned from more successful acquires than releases and is
\* not in the tail of its outermost release: it considers itself the owner.
Considers(t) == held[t] > 0 /\ ~Releasing(t)

\* C1 - mutual exclusion: no two distinct threads consider themselves the
\* owner at the same time (each has returned successfully from an acquire
\* and has not completed its matching outermost release).
C1_MutualExclusion ==
    \A t \in Threads : \A u \in Threads :
        t # u => ~(Considers(t) /\ Considers(u))

\* One thread owns the mutex while another one is inside an acquire,
\* waiting at the semaphore for it.
C1_Witness ==
    \E t \in Threads : \E u \in Threads :
        /\ t # u
        /\ Considers(t) /\ pc[t] = "idle"
        /\ pc[u] \in {"lock_wait", "try_wait"}
        /\ held[u] = 0

\* C2 - SDL_TryLockMutex is non-blocking: a thread inside SDL_TryLockMutex
\* is never suspended at the semaphore; on a mutex held by another thread
\* it goes on at once (to return a would-block status) with owner and
\* recursive untouched.
C2_TryLockNeverSuspends ==
    \A u \in Threads : pc[u] = "try_wait" => ~Suspended(u)

\* C3 - recursion correctness: a thread that has acquired the mutex more
\* often than it has released it is still the owner, the token is still
\* taken and the depth is one less than its number of holds; the mutex stops
\* being its own exactly when its releases match its acquires.
C3_RecursionCorrect ==
    \A t \in Threads :
        /\ (pc[t] = "idle" /\ held[t] > 0)
              => (owner = t /\ sem = 0 /\ recursive = held[t] - 1)
        /\ (pc[t] = "unl_ret" /\ rv[t] = 0 /\ held[t] > 1)
              => (owner = t /\ sem = 0 /\ recursive = held[t] - 2)
        /\ (pc[t] = "unl_ret" /\ rv[t] = 0 /\ held[t] = 1) => owner # t
        /\ (pc[t] = "idle" /\ held[t] = 0) => owner # t
        /\ held[t] >= 0

\* A thread returns from a release that was not its last one: it held the
\* mutex MaxHeld times and is still the owner.
C3_Witness ==
    \E t \in Threads :
        /\ pc[t] = "unl_ret" /\ rv[t] = 0
        /\ held[t] = MaxHeld /\ MaxHeld > 1
        /\ owner = t /\ sem = 0

\* C4 - ownership violation: a step of SDL_UnlockMutex taken by a thread
\* that finds owner different from itself (free mutex included) leads to
\* the error return, and no step of that failing call changes owner,
\* recursive or the semaphore count.
C4_OwnershipViolation ==
    [][\A t \in Threads :
          /\ (pc[t] = "unl_test" /\ owner # t /\ pc'[t] # pc[t])
                => (pc'[t] = "unl_ret" /\ rv'[t] = SetErrorResult
                    /\ UNCHANGED shared)
          /\ (pc[t] = "unl_ret" /\ rv[t] = SetErrorResult /\ pc'[t] # pc[t])
                => (pc'[t] = "idle" /\ held'[t] = held[t]
                    /\ UNCHANGED shared)]_vars

\* A thread that is not the owner is returning the error from
\* SDL_UnlockMutex while another thread holds the mutex recursively.
C4_Witness ==
    \E t \in Threads :
        /\ pc[t] = "unl_ret" /\ rv[t] = SetErrorResult
        /\ owner \notin {t, NoOwner}
        /\ recursive > 0

\* C5 - liveness: a thread waiting in SDL_LockMutex, whether the mutex is
\* still held by another thread or that thread has just posted the token in
\* its outermost release, eventually returns from SDL_LockMutex as the owner
\* (holders release, the semaphore wakes the waiter).
C5_BlockedLockerGetsMutex ==
    \A u \in Threads :
        pc[u] = "lock_wait" ~> (pc[u] = "lock_ret" /\ rv[u] = 0 /\ owner = u)

\* A thread has just posted the token in its outermost release while
\* another thread is blocked in SDL_LockMutex.
C5_Witness ==
    \E t \in Threads : \E u \in Threads :
        /\ t # u
        /\ pc[t] = "unl_ret" /\ rv[t] = 0 /\ held[t] = 1
        /\ pc[u] = "lock_wait" /\ sem = 1 /\ owner = NoOwner

\* C6 - wait failure is propagated: an acquire in which the semaphore wait
\* failed returns that failure status, not success.
C6_WaitFailurePropagated ==
    \A t \in Threads :
        (pc[t] \in {"lock_ret", "try_ret"} /\ semrv[t] # 0) => rv[t] = semrv[t]

\* C7 - acquire postcondition: when SDL_LockMutex returns to t, owner = t;
\* if t was not the owner before (it took the token), the depth is 0, the
\* token is taken and no other thread still considers itself the owner.
C7_LockPostcondition ==
    \A t \in Threads :
        pc[t] = "lock_ret" =>
            /\ rv[t] = 0
            /\ owner = t
            /\ held[t] = 0 =>
                  /\ recursive = 0
                  /\ sem = 0
                  /\ \A u \in Threads : u # t => ~Considers(u)

\* SDL_LockMutex returns to a thread that took the token, while the previous
\* holder has not even returned from its outermost release.
C7_Witness ==
    \E t \in Threads : \E u \in Threads :
        /\ t # u
        /\ pc[t] = "lock_ret" /\ held[t] = 0 /\ owner = t
        /\ pc[u] = "unl_ret" /\ rv[u] = 0 /\ held[u] = 1

\* C8 - re-entrant acquire: a thread that is the owner when it calls
\* SDL_LockMutex or SDL_TryLockMutex never reaches the semaphore wait; the
\* call adds exactly one to recursive, returns 0 and leaves owner and the
\* semaphore count as they were.
C8_ReentrantAcquire ==
    \A t \in Threads :
        /\ (pc[t] \in {"lock_test", "try_test"} /\ owner = t)
              => (sem = 0 /\ recursive = held[t] - 1)
        /\ pc[t] \in {"lock_inc", "try_inc"}
              => (owner = t /\ sem = 0 /\ recursive = held[t] - 1)
        /\ (pc[t] \in {"lock_ret", "try_ret"} /\ held[t] > 0)
              => (owner = t /\ sem = 0 /\ recursive = held[t] /\ rv[t] = 0)
        /\ held[t] > 0
              => pc[t] \notin {"lock_wait", "lock_owner", "lock_rec",
                               "try_wait", "try_owner", "try_rec"}

\* A re-entrant SDL_TryLockMutex is returning: the depth went up to 1.
C8_Witness ==
    \E t \in Threads :
        pc[t] = "try_ret" /\ held[t] = 1 /\ recursive = 1 /\ owner = t

\* C9 - inner release: when the owner calls SDL_UnlockMutex with
\* recursive > 0, the call takes exactly one off recursive, returns 0 and
\* leaves owner and the semaphore count as they were.
C9_InnerRelease ==
    \A t \in Threads :
        /\ (pc[t] = "unl_rec" /\ recursive > 0)
              => (owner = t /\ sem = 0 /\ recursive = held[t] - 1)
        /\ pc[t] = "unl_dec"
              => (owner = t /\ sem = 0 /\ recursive = held[t] - 1 /\ recursive > 0)
        /\ (pc[t] = "unl_ret" /\ rv[t] = 0 /\ held[t] > 1)
              => (owner = t /\ sem = 0 /\ recursive = held[t] - 2)
        /\ (pc[t] \in {"unl_clear", "unl_post"}) => held[t] = 1

\* An inner release is returning: the depth went from 1 to 0 and the thread
\* is still the owner.
C9_Witness ==
    \E t \in Threads :
        pc[t] = "unl_ret" /\ rv[t] = 0 /\ held[t] = 2 /\ recursive = 0 /\ owner = t

\* State of the mutex after thread t took the token of a free mutex.
Acquired(t) == <<t, 0, SemInitial - 1>>

\* C10 - a successful try-acquire equals an acquire: SDL_TryLockMutex that
\* takes the token returns 0 and leaves the same state SDL_LockMutex leaves
\* (owner = t, recursive = 0, semaphore count 0).
C10_TryLockEqualsLock ==
    \A t \in Threads :
        /\ (pc[t] = "try_ret" /\ held[t] = 0)
              => (rv[t] = 0 /\ shared = Acquired(t))
        /\ (pc[t] = "lock_ret" /\ held[t] = 0) => shared = Acquired(t)

\* SDL_TryLockMutex is returning after it took the token.
C10_Witness ==
    \E t \in Threads :
        pc[t] = "try_ret" /\ held[t] = 0 /\ semrv[t] = 0 /\ owner = t

\* C11 - null-safety: SDL_LockMutex, SDL_TryLockMutex, SDL_UnlockMutex and
\* SDL_DestroyMutex given a NULL mutex return 0 (destroy just returns), are
\* never suspended, and neither the call nor its return changes the existing
\* mutex, its semaphore or the caller's holds on it.
C11_NullSafety ==
    /\ [](\A t \in Threads :
            /\ pc[t] \in NullLabels => (rv[t] = 0 /\ ENABLED NullReturn(t))
            /\ pc[t] = "idle" =>
                  (ENABLED LockNull(t) /\ ENABLED TryNull(t)
                   /\ ENABLED UnlockNull(t) /\ ENABLED DestroyNull(t)))
    /\ [][\A t \in Threads :
            (pc'[t] # pc[t] /\ (pc'[t] \in NullLabels \/ pc[t] \in NullLabels))
                => (UNCHANGED shared /\ held'[t] = held[t])]_vars

\* SDL_UnlockMutex(NULL) is returning to a thread while another thread
\* holds the real mutex recursively.
C11_Witness ==
    \E t \in Threads :
        /\ pc[t] = "unl_null" /\ rv[t] = 0
        /\ owner \notin {t, NoOwner} /\ recursive > 0 /\ sem = 0

\* C12 - create is all-or-nothing: when SDL_CreateMutex returns, either it
\* returns a mutex in the initial free state (owner = 0, recursive = 0,
\* semaphore count 1) with its storage and its semaphore allocated, or it
\* returns NULL and neither storage nor semaphore is left allocated.
C12_CreateAllOrNothing ==
    cpc = "c_ret" =>
        \/ /\ mutex = "ptr"
           /\ shared = <<NoOwner, 0, SemInitial>>
           /\ mem = 1 /\ semobj = 1
        \/ /\ mutex = "null"
           /\ mem = 0 /\ semobj = 0

\* SDL_CreateMutex is returning NULL with nothing left allocated, while a
\* thread is in a call that was given the NULL mutex.
C12_Witness ==
    /\ cpc = "c_ret" /\ mutex = "null" /\ mem = 0 /\ semobj = 0
    /\ \E t \in Threads : pc[t] \in NullLabels

\* Thread t is between a successful semaphore wait of its own and the post
\* that gives the token back.
HasToken(t) ==
    \/ pc[t] \in {"lock_owner", "lock_rec", "try_owner", "try_rec"}
    \/ pc[t] \in {"lock_ret", "try_ret"} /\ rv[t] = 0
    \/ held[t] > 0 /\ ~(pc[t] = "unl_ret" /\ rv[t] = 0 /\ held[t] = 1)

\* C13 - ordering (I4): in every state, also in the middle of a call, a
\* non-zero owner is a thread that has taken the token and has not posted
\* it back, so the token is never available while owner is set; owner is
\* set only once the token is taken and is cleared before the post.
C13_OwnerOnlyWithToken ==
    /\ [](owner # NoOwner => (sem = 0 /\ HasToken(owner)))
    /\ [][/\ sem' > sem => (owner = NoOwner /\ owner' = NoOwner)
          /\ owner' \notin {owner, NoOwner} => (sem = 0 /\ sem' = 0)]_vars

\* In the middle of two calls: a thread has just set owner after its wait,
\* while the previous holder has not returned from its outermost release.
C13_Witness ==
    \E t \in Threads : \E u \in Threads :
        /\ t # u
        /\ pc[t] = "lock_rec" /\ owner = t /\ sem = 0
        /\ pc[u] = "unl_ret" /\ rv[u] = 0 /\ held[u] = 1

\* A thread is in one of the two windows the ordering leaves open: it has
\* taken the token and not yet set owner, or it has cleared owner and not
\* yet posted the token.
InWindow(t) == pc[t] \in {"lock_owner", "try_owner", "unl_post"}

\* C14 as stated - I1 in every reachable state: owner is the sentinel if
\* and only if the semaphore has its token available (count = 1).
C14_OwnerFreeIffToken ==
    (owner = NoOwner) <=> (sem = SemInitial)

\* C14 as amended - owner is the sentinel if and only if the token is
\* available or a thread is in one of the two windows (token taken and
\* owner not yet set, or owner cleared and token not yet posted).
C14_OwnerFreeIffTokenOrWindow ==
    (owner = NoOwner) <=> (sem = SemInitial \/ \E t \in Threads : InWindow(t))

\* A thread has cleared owner in its outermost release and has not posted
\* the token yet, while another thread waits for it in SDL_LockMutex.
C14_Witness ==
    \E t \in Threads : \E u \in Threads :
        /\ pc[t] = "unl_post" /\ owner = NoOwner /\ sem = 0
        /\ pc[u] = "lock_wait"

\* C15 - I2: in every reachable state recursive > 0 implies that owner is
\* not the sentinel; a mutex without owner has depth 0.
C15_DepthOnlyWithOwner ==
    recursive > 0 => owner # NoOwner

\* The owner is inside a release at the greatest depth while another thread
\* waits for the mutex.
C15_Witness ==
    \E t \in Threads : \E u \in Threads :
        /\ pc[t] = "unl_rec" /\ owner = t
        /\ recursive = MaxHeld - 1 /\ recursive > 0
        /\ pc[u] \in {"lock_wait", "try_wait"}

\* C16 - binary token discipline: whatever lock, try-lock and unlock calls
\* were made, failing unlocks by non-owners and unlocks of a free mutex
\* included, the semaphore count is 0 or 1; no token is posted that was not
\* taken before.
C16_BinaryToken ==
    /\ sem \in {0, 1}
    /\ sem = 1 => \A t \in Threads : pc[t] # "unl_post"

\* An unlock of a free mutex is returning its error: the count is still 1.
C16_Witness ==
    \E t \in Threads :
        /\ pc[t] = "unl_ret" /\ rv[t] = SetErrorResult
        /\ owner = NoOwner /\ sem = 1

\* the steps that write mutex->owner or mutex->recursive
WriteLabels == {"lock_inc", "lock_owner", "lock_rec", "try_inc", "try_owner",
                "try_rec", "unl_dec", "unl_clear"}

\* C17 - writes are race-free: a thread at a step that writes owner or
\* recursive holds the semaphore token (the count is 0), and no other
\* thread is at such a step at the same time.
C17_WritesRaceFree ==
    \A t \in Threads :
        pc[t] \in WriteLabels =>
            /\ sem = 0
            /\ HasToken(t)
            /\ \A u \in Threads : u # t => (pc[u] \notin WriteLabels /\ ~HasToken(u))

\* A thread is about to clear owner while another one is about to read it
\* in its own unlock call.
C17_Witness ==
    \E t \in Threads : \E u \in Threads :
        /\ t # u
        /\ pc[t] = "unl_clear" /\ owner = t
        /\ pc[u] = "unl_test"

\* C18 - single suspension point: a thread is suspended only inside
\* SDL_LockMutex's semaphore wait, and only while another thread has the
\* token; a thread inside SDL_UnlockMutex can always take its next step.
C18_OnlyLockSuspends ==
    \A t \in Threads :
        /\ Suspended(t) =>
              (pc[t] = "lock_wait" /\ \E u \in Threads : u # t /\ HasToken(u))
        /\ pc[t] \in UnlockLabels => ENABLED Internal(t)

\* C19 - the token is never lost: whenever the count is 0 exactly one
\* thread is between its wait and its post, and the threads are never all
\* suspended at the semaphore.
C19_TokenNeverLost ==
    /\ sem = 0 => Cardinality({t \in Threads : HasToken(t)}) = 1
    /\ sem > 0 => \A t \in Threads : ~HasToken(t)
    /\ ~(\A t \in Threads : Suspended(t))

\* One thread holds the mutex and every other thread is suspended at the
\* semaphore.
C19_Witness ==
    \E t \in Threads :
        /\ HasToken(t) /\ pc[t] = "idle" /\ sem = 0
        /\ \A u \in Threads : u # t => Suspended(u)

\* C20 - balanced use round-trips: when no thread is inside a call and each
\* thread has as many successful releases as successful acquires, the
\* mutex is as SDL_CreateMutex left it (owner = 0, recursive = 0, count 1).
C20_BalancedIsInitial ==
    (\A t \in Threads : pc[t] = "idle" /\ held[t] = 0)
        => shared = <<NoOwner, 0, SemInitial>>

\* The release that balances the last acquire is returning; every other
\* thread is outside any call and balanced.
C20_Witness ==
    \E t \in Threads :
        /\ pc[t] = "unl_ret" /\ rv[t] = 0 /\ held[t] = 1
        /\ \A u \in Threads : u # t => (pc[u] = "idle" /\ held[u] = 0)

====
